---- MODULE Spec2Model ----
(***************************************************************************)
(* The admin events views of the Arunachal Literature web application:     *)
(*   EventsManagement (events-management.tsx, lines 34-343) and            *)
(*   CreateEvent      (events-management.tsx, lines 376-591),              *)
(* with the service layer (@/service/events-apis) they call.               *)
(*                                                                         *)
(* An async handler is one action up to its await and one action from the  *)
(* await on (the continuation, run when the awaited call has settled).     *)
(* An optional value (a field that may be missing, a state that may be     *)
(* null) is a sequence of length 0 or 1.  A string whose characters matter *)
(* (day names, the search term) is a sequence of characters.               *)
(***************************************************************************)
EXTENDS Integers, Sequences, FiniteSets, TLC

VARIABLES
  mounted,      \* EventsManagement: the mount effect (useEffect, line 42) has run
  searchTerm,   \* EventsManagement: useState("")                    (line 37)
  events,       \* EventsManagement: useState<EventWithDays | null>  (line 38)
  isLoading,    \* EventsManagement: useState(true)                  (line 39)
  isDeleting,   \* EventsManagement: useState<string | null>(null)   (line 40)
  isAdmin,      \* EventsManagement: useDeletePermission()           (line 36)
  contactAdminOpen, \* the ContactAdminModal of lines 242-250 is showing
  formData,     \* CreateEvent: useState<CreateEventData>            (line 379)
  submitLoading,\* CreateEvent: its isLoading, useState(false)       (line 378)
  submitNow,    \* CreateEvent: handleSubmit's `now` of the submission in flight (line 391)
  clock,        \* the system clock, in ticks
  calls,        \* the service calls issued and not yet consumed by their caller
  toasts        \* the toast() calls made so far, in order

vars == <<mounted, searchTerm, events, isLoading, isDeleting, isAdmin,
          contactAdminOpen, formData, submitLoading, submitNow, clock, calls, toasts>>

emVars == <<mounted, searchTerm, events, isLoading, isDeleting, isAdmin, contactAdminOpen>>
ceVars == <<formData, submitLoading, submitNow, clock>>

(***************************************************************************)
(* Bounds of the model.                                                    *)
(***************************************************************************)
MaxToasts == 3
MaxSubmits == 2
MaxNameLen == 2
MaxTermLen == 2
MaxDays == 2
MaxClock == 4
MaxMinute == 1
TicksPerMinute == 2
TicksPerMonth == 4
TimezoneOffsetMinutes == 1
EpochYear == 2025

(***************************************************************************)
(* Optional values.                                                        *)
(***************************************************************************)
Null == <<>>
Some(v) == <<v>>
Val(o) == o[1]
Truthy(o) == o # Null /\ Val(o) # ""
OrElse(o, default) == IF Truthy(o) THEN Val(o) ELSE default

RemoveAt(s, i) == SubSeq(s, 1, i - 1) \o SubSeq(s, i + 1, Len(s))

(***************************************************************************)
(* Strings: String.prototype.toLowerCase and String.prototype.includes.    *)
(* toLowerCase maps each character by the Unicode case mappings, including *)
(* the one context-sensitive mapping of SpecialCasing.txt that does not    *)
(* depend on the language: a capital sigma becomes the final small sigma   *)
(* when it ends a word (it follows a cased letter and no cased letter      *)
(* follows it), and the ordinary small sigma otherwise.                    *)
(***************************************************************************)
InputChars == {"a", "A", "SIGMA"}
CasedChars == {"a", "A", "SIGMA", "sigma", "fsigma"}
CaseIgnorableChars == {"'"}

LowerChar(c) == CASE c = "A" -> "a" [] c = "SIGMA" -> "sigma" [] OTHER -> c

FinalSigma(s, i) ==
  /\ \E j \in 1..(i - 1) :
        /\ s[j] \in CasedChars
        /\ \A k \in (j + 1)..(i - 1) : s[k] \in CaseIgnorableChars
  /\ ~ \E j \in (i + 1)..Len(s) :
        /\ s[j] \in CasedChars
        /\ \A k \in (i + 1)..(j - 1) : s[k] \in CaseIgnorableChars

toLowerCase(s) ==
  [i \in 1..Len(s) |->
     IF s[i] = "SIGMA"
       THEN (IF FinalSigma(s, i) THEN "fsigma" ELSE "sigma")
       ELSE LowerChar(s[i])]

includes(s, t) ==
  \E k \in 0..(Len(s) - Len(t)) : \A i \in 1..Len(t) : s[k + i] = t[i]

StringsUpTo(n) == UNION {[1..m -> InputChars] : m \in 0..n}

(***************************************************************************)
(* The data the views hold.                                                *)
(***************************************************************************)
DayA == [name |-> <<"A", "a">>, description |-> <<"a">>]
DayS == [name |-> <<"A", "SIGMA">>, description |-> <<>>]
\* The EventWithDays values the remote store is taken to hold over time.
EventData ==
  { [event |-> Some([id |-> "e1"]), days |-> Some(<<DayA, DayS>>)],
    [event |-> Some([id |-> "e2"]), days |-> Null],
    [event |-> Null, days |-> Some(<<>>)] }
TypedTerms == {<<>>, <<"a", "A">>}

(***************************************************************************)
(* The service layer: getAllEvents, addEvent, deleteEvent.  Each call      *)
(* resolves to an ApiResponse envelope or, for a failure that is not an    *)
(* ordinary one, rejects.                                                  *)
(***************************************************************************)
Pending == [kind |-> "pending"]
Rejected == [kind |-> "rejected"]
Resolved(r) == [kind |-> "resolved", result |-> r]

Messages == {Null, Some("done")}
Errors == {"server error"}
Acks == {[acknowledged |-> TRUE]}

OkResponses(D) ==
  {[success |-> TRUE, data |-> Some(d), message |-> m, error |-> Null] :
     d \in D, m \in Messages}
ErrResponses ==
  {[success |-> FALSE, data |-> Null, message |-> Null, error |-> Some(e)] :
     e \in Errors}

getAllEvents == OkResponses(EventData) \cup ErrResponses

\* A variant whose success envelope carries a message and no data.
deleteEventWithoutData ==
  {[success |-> TRUE, data |-> Null, message |-> m, error |-> Null] : m \in Messages}
    \cup ErrResponses

deleteEvent == OkResponses(Acks) \cup ErrResponses
addEvent == OkResponses(Acks) \cup ErrResponses

ServiceResponses(fn) ==
  CASE fn = "getAllEvents" -> getAllEvents
    [] fn = "deleteEvent" -> deleteEvent
    [] fn = "addEvent" -> addEvent

Call(fn, arg) == [fn |-> fn, arg |-> arg, outcome |-> Pending]

\* The call calls[i] settles: the service resolves or rejects it.
ServiceSettles(i) ==
  /\ calls[i].outcome = Pending
  /\ \E o \in {Resolved(r) : r \in ServiceResponses(calls[i].fn)} \cup {Rejected} :
       calls' = [calls EXCEPT ![i].outcome = o]
  /\ UNCHANGED <<emVars, ceVars, toasts>>

Settled(c) == c.outcome # Pending
InFlight(fn) == {i \in 1..Len(calls) : calls[i].fn = fn}

Toast(title, description) == [title |-> title, description |-> description]

(***************************************************************************)
(* EventsManagement.                                                       *)
(***************************************************************************)
\* fetchEvents up to its await (lines 46-49), on the calls still outstanding.
fetchEvents(outstanding) ==
  /\ isLoading' = TRUE
  /\ calls' = Append(outstanding, Call("getAllEvents", Null))

\* useEffect(() => { fetchEvents() }, []) (lines 42-44).
useEffect ==
  /\ ~mounted
  /\ mounted' = TRUE
  /\ fetchEvents(calls)
  /\ UNCHANGED <<searchTerm, events, isDeleting, isAdmin, contactAdminOpen, ceVars, toasts>>

\* A variant that stores result.data whatever the envelope says.
fetchEventsTryUnchecked(result) ==
  IF result.data # Null THEN Some(Val(result.data)) ELSE Null

\* The try block of fetchEvents after the await (lines 50-57): the new events.
fetchEventsTry(result) ==
  IF result.success /\ result.data # Null THEN Some(Val(result.data)) ELSE events

\* A variant that clears the flag at the end of the try block only.
fetchEventsFinallyInTry(o) == IF o.kind = "resolved" THEN FALSE ELSE isLoading

\* The finally block of fetchEvents (lines 63-65): the new isLoading.
fetchEventsFinally(o) == FALSE

\* fetchEvents from its await on (lines 49-65), for the settled call calls[i].
fetchEventsResume(i) ==
  LET o == calls[i].outcome IN
  /\ calls[i].fn = "getAllEvents"
  /\ Settled(calls[i])
  /\ calls' = RemoveAt(calls, i)
  /\ IF o.kind = "resolved"
       THEN /\ events' = fetchEventsTry(o.result)
            /\ toasts' = IF o.result.success /\ o.result.data # Null
                           THEN toasts
                           ELSE Append(toasts,
                                  Toast("Error", OrElse(o.result.error, "Failed to fetch events")))
       ELSE /\ toasts' = Append(toasts, Toast("Error", "An unexpected error occurred"))
            /\ UNCHANGED events
  /\ isLoading' = fetchEventsFinally(o)
  /\ UNCHANGED <<mounted, searchTerm, isDeleting, isAdmin, contactAdminOpen, ceVars>>

\* A variant without the early return: the page is rendered while loading too.
PageRenderedWhileLoading == TRUE

\* The page body is rendered, not the spinner (lines 111-117).
PageRendered == ~isLoading

\* The card of the current event, with its actions menu, is rendered (line 179).
EventCardRendered == PageRendered /\ events # Null /\ Val(events).event # Null

\* A variant whose trigger is never disabled.
MenuTriggerAlwaysEnabled == EventCardRendered

\* The menu's trigger is enabled (line 210).
MenuTriggerEnabled ==
  EventCardRendered /\ isDeleting # Some(Val(Val(events).event).id)

\* A variant that renders the item for every user.
DeleteItemRenderedForAll == MenuTriggerEnabled

\* The Delete Event item that calls handleDeleteEvent is in the menu (lines 233-240).
DeleteItemRendered == MenuTriggerEnabled /\ isAdmin

\* The Delete Event item that opens the ContactAdminModal is in the menu (lines 241-251).
DeniedItemRendered == MenuTriggerEnabled /\ ~isAdmin

\* A variant that sets the flag before it asks for confirmation.
handleDeleteEventFlagFirst(eventId, confirmed) ==
  /\ isDeleting' = Some(eventId)
  /\ calls' = IF confirmed THEN Append(calls, Call("deleteEvent", Some(eventId))) ELSE calls
  /\ UNCHANGED <<mounted, searchTerm, events, isLoading, isAdmin,
                 contactAdminOpen, ceVars, toasts>>

\* handleDeleteEvent up to its await (lines 68-73); confirmed is confirm()'s answer.
handleDeleteEvent(eventId, confirmed) ==
  IF ~confirmed
    THEN UNCHANGED vars
    ELSE /\ isDeleting' = Some(eventId)
         /\ calls' = Append(calls, Call("deleteEvent", Some(eventId)))
         /\ UNCHANGED <<mounted, searchTerm, events, isLoading, isAdmin,
                        contactAdminOpen, ceVars, toasts>>

\* A click on the Delete Event item of an admin (line 236).
ClickDelete ==
  /\ DeleteItemRendered
  /\ Len(toasts) < MaxToasts
  /\ \E confirmed \in BOOLEAN :
       handleDeleteEvent(Val(Val(events).event).id, confirmed)

\* A variant that refreshes the list whenever the call resolved.
handleDeleteEventRefetchesAlways(o) == o.kind = "resolved"

\* Whether handleDeleteEvent refreshes the list (lines 74-79).
handleDeleteEventRefetches(o) == o.kind = "resolved" /\ o.result.success

\* A variant that clears the flag on the success path only.
handleDeleteEventFinallyOnSuccess(o) ==
  IF o.kind = "resolved" /\ o.result.success THEN Null ELSE isDeleting

\* The finally block of handleDeleteEvent (lines 91-93): the new isDeleting.
handleDeleteEventFinally(o) == Null

\* handleDeleteEvent from its await on (lines 73-93), for the settled call calls[i].
handleDeleteEventResume(i) ==
  LET o == calls[i].outcome
      outstanding == RemoveAt(calls, i) IN
  /\ calls[i].fn = "deleteEvent"
  /\ Settled(calls[i])
  /\ toasts' = Append(toasts,
       IF o.kind = "resolved"
         THEN IF o.result.success
                THEN Toast("Success", OrElse(o.result.message, "Event deleted successfully"))
                ELSE Toast("Error", OrElse(o.result.error, "Failed to delete event"))
         ELSE Toast("Error", "An unexpected error occurred"))
  /\ IF handleDeleteEventRefetches(o)
       THEN fetchEvents(outstanding)
       ELSE calls' = outstanding /\ UNCHANGED isLoading
  /\ isDeleting' = handleDeleteEventFinally(o)
  /\ UNCHANGED <<mounted, searchTerm, events, isAdmin, contactAdminOpen, ceVars>>

\* A click on the Delete Event item of a non-admin opens the modal (lines 242-250).
ClickDeleteDenied ==
  /\ DeniedItemRendered
  /\ ~contactAdminOpen
  /\ contactAdminOpen' = TRUE
  /\ UNCHANGED <<mounted, searchTerm, events, isLoading, isDeleting, isAdmin,
                 ceVars, calls, toasts>>

CloseContactAdmin ==
  /\ contactAdminOpen
  /\ contactAdminOpen' = FALSE
  /\ UNCHANGED <<mounted, searchTerm, events, isLoading, isDeleting, isAdmin,
                 ceVars, calls, toasts>>

\* Typing in the search box (line 276).
setSearchTerm(t) ==
  /\ PageRendered
  /\ ~contactAdminOpen
  /\ searchTerm' = t
  /\ UNCHANGED <<mounted, events, isLoading, isDeleting, isAdmin, contactAdminOpen,
                 ceVars, calls, toasts>>

\* filteredDays (lines 96-101).
filteredDays ==
  IF events = Null \/ Val(events).days = Null
    THEN <<>>
    ELSE SelectSeq(Val(Val(events).days),
           LAMBDA day :
             \/ includes(toLowerCase(day.name), toLowerCase(searchTerm))
             \/ includes(toLowerCase(day.description), toLowerCase(searchTerm)))

(***************************************************************************)
(* CreateEvent.  Time is counted in ticks.  The value of a datetime-local  *)
(* input is the empty string (Null) or names a minute of local wall-clock  *)
(* time (Some(m)); a Date is Invalid (Null) or holds a time value in ticks *)
(* since the epoch, UTC (Some(t)).                                         *)
(***************************************************************************)
\* new Date(s) for the value s of a datetime-local input (lines 392, 399, 412, 413).
NewDate(s) ==
  IF s = Null THEN Null
  ELSE Some((Val(s) + TimezoneOffsetMinutes) * TicksPerMinute)

\* d < now, for a Date d and the time value now (lines 392, 399): false for an Invalid Date.
DateBefore(d, now) == d # Null /\ Val(d) < now

\* Date.prototype.toISOString (lines 412, 413), for a valid Date: the UTC minute and
\* what is left of it.
toISOString(d) ==
  [utcMinute |-> Val(d) \div TicksPerMinute, rest |-> Val(d) % TicksPerMinute]

\* new Date().getFullYear() and new Date().getMonth() + 1, in local time (lines 384, 385).
LocalMonths(t) == (t - TimezoneOffsetMinutes * TicksPerMinute) \div TicksPerMonth
getFullYear(t) == EpochYear + (LocalMonths(t) \div 12)
getMonthPlus1(t) == (LocalMonths(t) % 12) + 1

\* The form at construction (lines 379-386), at time t.
InitialFormData(t) ==
  [name |-> "", description |-> "", startDate |-> Null, endDate |-> Null,
   year |-> getFullYear(t), month |-> getMonthPlus1(t)]

\* A variant that clears the text and date fields and keeps the year and month.
ResetFormDataKeepingYear(t) ==
  [formData EXCEPT !.name = "", !.description = "", !.startDate = Null, !.endDate = Null]

\* The form after a successful submission (lines 425-432), at time t.
ResetFormData(t) ==
  [name |-> "", description |-> "", startDate |-> Null, endDate |-> Null,
   year |-> getFullYear(t), month |-> getMonthPlus1(t)]

InitCreateVars ==
  /\ clock = 0
  /\ formData = InitialFormData(0)
  /\ submitLoading = FALSE
  /\ submitNow = Null

\* Number.parseInt(value) || 0 (line 453): text is Null when it is not a number.
ParseIntOr0(text) == IF text = Null THEN 0 ELSE Val(text)

TextFields == {"name", "description"}
DateFields == {"startDate", "endDate"}
NumberFields == {"year", "month"}
TypedText == [name |-> {"Spring Fest 2025"}, description |-> {"A festival"}]
TypedDates == {Null} \cup {Some(m) : m \in 0..MaxMinute}
TypedNumbers == [year |-> {Null}, month |-> {Some(3)}]

\* handleChange (lines 449-455); the inputs are disabled while loading.
handleChange(field, value) ==
  /\ ~submitLoading
  /\ formData' = [formData EXCEPT ![field] =
                    IF field \in NumberFields THEN ParseIntOr0(value) ELSE value]
  /\ UNCHANGED <<emVars, submitLoading, submitNow, clock, calls, toasts>>

\* A variant that tests the end date in both guards.
StartDateInPastCopied(now) ==
  formData.endDate # Null /\ DateBefore(NewDate(formData.endDate), now)

\* The start-date guard of handleSubmit (line 392).
StartDateInPast(now) ==
  formData.startDate # Null /\ DateBefore(NewDate(formData.startDate), now)

\* The end-date guard of handleSubmit (line 399).
EndDateInPast(now) ==
  formData.endDate # Null /\ DateBefore(NewDate(formData.endDate), now)

\* A variant that clears the flag at the end of the try block only: after an
\* exception the flag set at line 406 stays.
handleSubmitFinallyInTry(o) == o.kind # "resolved"

\* The finally block of handleSubmit (lines 444-446): the new isLoading, after the
\* try block ended with outcome o (Rejected: an exception was thrown).
handleSubmitFinally(o) == FALSE

\* handleSubmit up to its await (lines 388-416); the button is disabled while loading.
handleSubmit ==
  LET now == clock IN
  /\ ~submitLoading
  /\ Len(toasts) < MaxSubmits
  /\ IF StartDateInPast(now)
       THEN /\ toasts' = Append(toasts, Toast("Error", "Start Date cannot be in the past."))
            /\ UNCHANGED <<submitLoading, submitNow, calls>>
     ELSE IF EndDateInPast(now)
       THEN /\ toasts' = Append(toasts, Toast("Error", "End Date cannot be in the past."))
            /\ UNCHANGED <<submitLoading, submitNow, calls>>
     ELSE IF NewDate(formData.startDate) = Null \/ NewDate(formData.endDate) = Null
       \* toISOString throws a RangeError: catch (439-443), finally (444-446)
       THEN /\ toasts' = Append(toasts, Toast("Error", "An unexpected error occurred"))
            /\ submitLoading' = handleSubmitFinally(Rejected)
            /\ UNCHANGED <<submitNow, calls>>
     ELSE /\ submitLoading' = TRUE
          /\ submitNow' = Some(now)
          /\ calls' = Append(calls, Call("addEvent", Some(
               [formData EXCEPT !.startDate = toISOString(NewDate(formData.startDate)),
                                !.endDate = toISOString(NewDate(formData.endDate))])))
          /\ UNCHANGED toasts
  /\ UNCHANGED <<emVars, formData, clock>>

\* handleSubmit from its await on (lines 416-446), for the settled call calls[i].
handleSubmitResume(i) ==
  LET o == calls[i].outcome IN
  /\ calls[i].fn = "addEvent"
  /\ Settled(calls[i])
  /\ calls' = RemoveAt(calls, i)
  /\ IF o.kind = "resolved"
       THEN IF o.result.success
              THEN /\ toasts' = Append(toasts,
                        Toast("Success", OrElse(o.result.message, "Event created successfully")))
                   /\ formData' = ResetFormData(clock)
              ELSE /\ toasts' = Append(toasts,
                        Toast("Error", OrElse(o.result.error, "Failed to create event")))
                   /\ UNCHANGED formData
       ELSE /\ toasts' = Append(toasts, Toast("Error", "An unexpected error occurred"))
            /\ UNCHANGED formData
  /\ submitLoading' = handleSubmitFinally(o)
  /\ submitNow' = Null
  /\ UNCHANGED <<emVars, clock>>

\* Time passes.
Tick ==
  /\ clock < MaxClock
  /\ clock' = clock + 1
  /\ UNCHANGED <<emVars, formData, submitLoading, submitNow, calls, toasts>>

(***************************************************************************)
(* The EventsManagement page.                                              *)
(***************************************************************************)
Init ==
  /\ mounted = FALSE
  /\ searchTerm = <<>>
  /\ events = Null
  /\ isLoading = TRUE
  /\ isDeleting = Null
  /\ isAdmin \in BOOLEAN
  /\ contactAdminOpen = FALSE
  /\ InitCreateVars
  /\ calls = <<>>
  /\ toasts = <<>>

Next ==
  \/ useEffect
  \/ \E i \in 1..Len(calls) : ServiceSettles(i)
  \/ \E i \in 1..Len(calls) : fetchEventsResume(i)
  \/ ClickDelete
  \/ \E i \in 1..Len(calls) : handleDeleteEventResume(i)
  \/ ClickDeleteDenied
  \/ CloseContactAdmin
  \/ \E t \in TypedTerms : setSearchTerm(t)

Spec == Init /\ [][Next]_vars

(***************************************************************************)
(* The CreateEvent page.                                                   *)
(***************************************************************************)
InitCreate ==
  /\ mounted = FALSE
  /\ searchTerm = <<>>
  /\ events = Null
  /\ isLoading = TRUE
  /\ isDeleting = Null
  /\ isAdmin = FALSE
  /\ contactAdminOpen = FALSE
  /\ InitCreateVars
  /\ calls = <<>>
  /\ toasts = <<>>

NextCreate ==
  \/ Tick
  \/ \E field \in TextFields : \E value \in TypedText[field] : handleChange(field, value)
  \/ \E field \in DateFields : \E value \in TypedDates : handleChange(field, value)
  \/ \E field \in NumberFields : \E value \in TypedNumbers[field] : handleChange(field, value)
  \/ handleSubmit
  \/ \E i \in 1..Len(calls) : ServiceSettles(i)
  \/ \E i \in 1..Len(calls) : handleSubmitResume(i)

SpecCreate == InitCreate /\ [][NextCreate]_vars

(***************************************************************************)
(* filteredDays over the lists the page can hold and the terms the user    *)
(* can type.                                                               *)
(***************************************************************************)
DayDescriptions == {<<>>, <<"A">>}
Days == [name : StringsUpTo(MaxNameLen), description : DayDescriptions]
DayListsUpTo(max) == UNION {[1..n -> Days] : n \in 0..max}
\* null, an event whose days are missing, or an event with up to max days.
HeldEvents(max) ==
  {Null} \cup {Some([event |-> Some([id |-> "e1"]), days |-> ds]) :
                 ds \in {Null} \cup {Some(l) : l \in DayListsUpTo(max)}}

InitFilter ==
  /\ mounted = TRUE
  /\ searchTerm = <<>>
  /\ events \in HeldEvents(MaxDays)
  /\ isLoading = FALSE
  /\ isDeleting = Null
  /\ isAdmin = FALSE
  /\ contactAdminOpen = FALSE
  /\ InitCreateVars
  /\ calls = <<>>
  /\ toasts = <<>>

NextFilter == \E t \in StringsUpTo(MaxTermLen) : setSearchTerm(t)

SpecFilter == InitFilter /\ [][NextFilter]_vars

(***************************************************************************)
(* Properties of EventsManagement, checked under Spec.                     *)
(***************************************************************************)
NumInFlight(fn) == Cardinality(InFlight(fn))

\* This step is the continuation of the caller of the settled call calls[i]: the
\* call is gone from calls, and at most one new call follows the others.
Consumed(i) ==
  /\ Settled(calls[i])
  /\ calls' # calls
  /\ Len(calls') \in {Len(calls) - 1, Len(calls)}
  /\ SubSeq(calls', 1, Len(calls) - 1) = RemoveAt(calls, i)

DeleteConsumed(i) == calls[i].fn = "deleteEvent" /\ Consumed(i)
FetchConsumed(i) == calls[i].fn = "getAllEvents" /\ Consumed(i)

IsDeletingWhileInFlight ==
  \A i \in InFlight("deleteEvent") : isDeleting = calls[i].arg

\* C1: while a deleteEvent(id) call is outstanding, isDeleting is id; the step in
\* which the handler takes the call's outcome (success, failure envelope or
\* rejection) leaves isDeleting null.
C1_IsDeletingForTheCall ==
  [][ /\ IsDeletingWhileInFlight
      /\ IsDeletingWhileInFlight'
      /\ \A i \in InFlight("deleteEvent") :
           DeleteConsumed(i) => isDeleting = calls[i].arg /\ isDeleting' = Null ]_vars

\* A delete of the listed event threw, and isDeleting is null again.
C1_Witness ==
  /\ events # Null
  /\ toasts = <<Toast("Error", "An unexpected error occurred")>>
  /\ InFlight("deleteEvent") = {}
  /\ isDeleting = Null

\* C2: events changes only in the step in which fetchEvents takes a getAllEvents
\* outcome that resolved with success and data, and then to that data; a step that
\* issues a deleteEvent call or takes its outcome leaves events as it was.
C2_EventsChangeOnlyOnFetch ==
  [][ /\ events' # events =>
           \E i \in InFlight("getAllEvents") :
             /\ FetchConsumed(i)
             /\ calls[i].outcome.kind = "resolved"
             /\ calls[i].outcome.result.success
             /\ calls[i].outcome.result.data # Null
             /\ events' = Some(Val(calls[i].outcome.result.data))
      /\ NumInFlight("deleteEvent")' # NumInFlight("deleteEvent") => events' = events
    ]_vars

\* A delete of the listed event resolved with success=false: the list is still there.
C2_Witness ==
  /\ events # Null
  /\ Val(events).event # Null
  /\ toasts = <<Toast("Error", "server error")>>
  /\ calls = <<>>

C7_DeleteOnlyForAdmin ==
  [][ /\ NumInFlight("deleteEvent")' > NumInFlight("deleteEvent") => isAdmin
      /\ ~isAdmin =>
           /\ InFlight("deleteEvent")' = {}
           /\ isDeleting = Null /\ isDeleting' = Null
           /\ events' # events => \E i \in 1..Len(calls) : Consumed(i)
    ]_vars

\* A user who is not an admin chose Delete Event and got the access-denied modal.
C7_Witness ==
  /\ ~isAdmin
  /\ contactAdminOpen
  /\ events # Null
  /\ isDeleting = Null
  /\ calls = <<>>

\* C8: no two outstanding deleteEvent calls are for the same event id.
C8_NoRepeatDelete ==
  \A i, j \in InFlight("deleteEvent") : i # j => calls[i].arg # calls[j].arg

\* A delete of the listed event is outstanding and its row is on the page.
C8_Witness ==
  /\ EventCardRendered
  /\ \E i \in InFlight("deleteEvent") :
       /\ calls[i].arg = Some(Val(Val(events).event).id)
       /\ isDeleting = calls[i].arg
       /\ calls[i].outcome = Pending

\* C9: the step that issues a getAllEvents call sets isLoading, and the step in
\* which fetchEvents takes the call's outcome (success with data, failure envelope
\* or rejection) clears it.
C9_LoadingAroundFetch ==
  [][ /\ NumInFlight("getAllEvents")' > NumInFlight("getAllEvents") => isLoading'
      /\ \A i \in InFlight("getAllEvents") : FetchConsumed(i) => ~isLoading'
    ]_vars

\* The fetch on mount threw, and the spinner is gone.
C9_Witness ==
  /\ mounted
  /\ events = Null
  /\ toasts = <<Toast("Error", "An unexpected error occurred")>>
  /\ ~isLoading

\* C10: the step in which handleDeleteEvent takes a deleteEvent outcome issues
\* exactly one getAllEvents call when the call resolved with success=true, and
\* issues none and adds an error notification when it resolved with success=false
\* or was rejected.
C10_RefetchOnlyOnSuccess ==
  [][ \A i \in InFlight("deleteEvent") :
        DeleteConsumed(i) =>
          LET o == calls[i].outcome IN
          IF o.kind = "resolved" /\ o.result.success
            THEN NumInFlight("getAllEvents")' = NumInFlight("getAllEvents") + 1
            ELSE /\ NumInFlight("getAllEvents")' = NumInFlight("getAllEvents")
                 /\ Len(toasts') = Len(toasts) + 1
                 /\ toasts'[Len(toasts')].title = "Error"
    ]_vars

\* A delete succeeded and its refetch is outstanding.
C10_Witness ==
  /\ toasts # <<>>
  /\ toasts[Len(toasts)].title = "Success"
  /\ NumInFlight("getAllEvents") = 1
  /\ NumInFlight("deleteEvent") = 0
  /\ isLoading

\* C12: when the Delete Event item can be chosen and no call is outstanding, a step
\* that issues no call (the user declined the confirmation prompt, or typed in the
\* search box) calls nothing, shows no notification and leaves isDeleting,
\* isLoading and events as they were.
C12_DeclinedConfirmIsNoOp ==
  [][ (DeleteItemRendered /\ calls = <<>> /\ NumInFlight("deleteEvent")' = 0)
        => UNCHANGED <<calls, toasts, isDeleting, isLoading, events>> ]_vars

\* The state a declined prompt starts from and ends in: the Delete Event item of the
\* listed event can be chosen again, after an earlier delete that failed.
C12_Witness ==
  /\ DeleteItemRendered
  /\ Len(toasts) < MaxToasts
  /\ toasts # <<>>
  /\ toasts[Len(toasts)].title = "Error"
  /\ calls = <<>>
  /\ isDeleting = Null
  /\ ~isLoading

AtMostOneRequest ==
  /\ Len(calls) <= 1
  /\ InFlight("getAllEvents") # {} => isLoading
  /\ isLoading => ~DeleteItemRendered

\* C13: at most one service call is outstanding at any time; isLoading is true
\* whenever a getAllEvents call is outstanding; the Delete Event item cannot be
\* chosen while isLoading is true; and a getAllEvents call is issued only by the
\* mount effect or by the step in which handleDeleteEvent takes a deleteEvent
\* outcome that resolved with success=true.
C13_OneRequestInFlight ==
  [][ /\ AtMostOneRequest
      /\ AtMostOneRequest'
      /\ NumInFlight("getAllEvents")' > NumInFlight("getAllEvents") =>
           \/ ~mounted /\ mounted'
           \/ \E i \in InFlight("deleteEvent") :
                /\ DeleteConsumed(i)
                /\ calls[i].outcome.kind = "resolved"
                /\ calls[i].outcome.result.success
    ]_vars

\* The refetch after a successful delete has resolved and is the only call
\* outstanding; the spinner still hides the page.
C13_Witness ==
  /\ Len(calls) = 1
  /\ calls[1].fn = "getAllEvents"
  /\ calls[1].outcome.kind = "resolved"
  /\ isLoading
  /\ events # Null
  /\ toasts # <<>>
  /\ toasts[Len(toasts)].title = "Success"

(***************************************************************************)
(* Properties of CreateEvent, checked under SpecCreate.                    *)
(***************************************************************************)
\* The time value an ISO string names.
FromISO(iso) == iso.utcMinute * TicksPerMinute + iso.rest

NoPastDateSubmitted ==
  \A i \in InFlight("addEvent") :
    /\ submitNow # Null
    /\ formData.startDate # Null /\ formData.endDate # Null
    /\ ~DateBefore(NewDate(formData.startDate), Val(submitNow))
    /\ ~DateBefore(NewDate(formData.endDate), Val(submitNow))
    /\ FromISO(Val(calls[i].arg).startDate) >= Val(submitNow)
    /\ FromISO(Val(calls[i].arg).endDate) >= Val(submitNow)

\* The form is submitted in this step: handleSubmit shows a notification or calls addEvent.
Submitted == ~submitLoading /\ (toasts' # toasts \/ calls' # calls)

\* C3: a submission whose start date or end date is before the current time adds an
\* error notification, calls nothing, and leaves isLoading false and formData as
\* they were; both dates of every addEvent call outstanding are at or after the
\* `now` of its submission.
C3_PastDateBlocksSubmit ==
  [][ /\ NoPastDateSubmitted'
      /\ ( /\ Submitted
           /\ \/ DateBefore(NewDate(formData.startDate), clock)
              \/ DateBefore(NewDate(formData.endDate), clock) )
         => /\ Len(toasts') = Len(toasts) + 1
            /\ SubSeq(toasts', 1, Len(toasts)) = toasts
            /\ toasts'[Len(toasts')].title = "Error"
            /\ calls' = calls
            /\ ~submitLoading'
            /\ formData' = formData
    ]_vars

\* A submission with a start date in the past was blocked.
C3_Witness ==
  /\ toasts # <<>>
  /\ toasts[Len(toasts)] = Toast("Error", "Start Date cannot be in the past.")
  /\ DateBefore(NewDate(formData.startDate), clock)
  /\ calls = <<>>
  /\ ~submitLoading

\* C5: the step in which handleSubmit takes an addEvent outcome that resolved with
\* success=true leaves name, description, startDate and endDate empty, year and
\* month those of the current time, and isLoading false.
C5_FormResetOnSuccess ==
  [][ \A i \in InFlight("addEvent") :
        ( /\ Consumed(i)
          /\ calls[i].outcome.kind = "resolved"
          /\ calls[i].outcome.result.success )
        => /\ formData' = [name |-> "", description |-> "",
                           startDate |-> Null, endDate |-> Null,
                           year |-> getFullYear(clock), month |-> getMonthPlus1(clock)]
           /\ ~submitLoading'
    ]_vars

\* An event named "Spring Fest 2025" was created, later than the form was first
\* shown, and the form is back at its defaults.
C5_Witness ==
  /\ toasts # <<>>
  /\ toasts[Len(toasts)].title = "Success"
  /\ clock > 0
  /\ formData.name = "" /\ formData.description = ""
  /\ formData.startDate = Null /\ formData.endDate = Null
  /\ formData.year = getFullYear(clock) /\ formData.month = getMonthPlus1(clock)
  /\ formData # InitialFormData(0)
  /\ ~submitLoading

\* An error notification is added, the form is enabled and holds what the user entered.
FailedSubmitIsRetryable ==
  /\ Len(toasts') = Len(toasts) + 1
  /\ SubSeq(toasts', 1, Len(toasts)) = toasts
  /\ toasts'[Len(toasts')].title = "Error"
  /\ ~submitLoading'
  /\ formData' = formData
  /\ InFlight("addEvent")' = {}

\* C11: a submission that passed the date guards and fails (addEvent resolves with
\* success=false, addEvent is rejected, or a date is empty so that its conversion
\* throws) adds an error notification, leaves isLoading false and leaves formData
\* as the user entered it.
C11_FailedSubmitRetryable ==
  [][ /\ \A i \in InFlight("addEvent") :
           ( /\ Consumed(i)
             /\ ~(calls[i].outcome.kind = "resolved" /\ calls[i].outcome.result.success) )
           => FailedSubmitIsRetryable
      /\ ( /\ Submitted
           /\ ~DateBefore(NewDate(formData.startDate), clock)
           /\ ~DateBefore(NewDate(formData.endDate), clock)
           /\ (formData.startDate = Null \/ formData.endDate = Null) )
         => FailedSubmitIsRetryable
    ]_vars

\* Two submissions of the same form failed, the first with a failure envelope and
\* the second, a retry, with a rejection; the form is enabled and still filled in.
C11_Witness ==
  /\ toasts = <<Toast("Error", "server error"), Toast("Error", "An unexpected error occurred")>>
  /\ formData.name = "Spring Fest 2025"
  /\ formData.startDate # Null /\ formData.endDate # Null
  /\ ~submitLoading
  /\ calls = <<>>

(***************************************************************************)
(* Properties of filteredDays, checked under SpecFilter.                   *)
(***************************************************************************)
\* Simple case folding: both small sigmas are the fold of the capital sigma.
CaseFold(c) ==
  CASE c = "A" -> "a" [] c = "SIGMA" -> "sigma" [] c = "fsigma" -> "sigma" [] OTHER -> c

ContainsIgnoringCase(s, t) ==
  \E k \in 0..(Len(s) - Len(t)) : \A i \in 1..Len(t) : CaseFold(s[k + i]) = CaseFold(t[i])

SourceDays == IF events = Null \/ Val(events).days = Null THEN <<>> ELSE Val(Val(events).days)

\* C4: filteredDays is the days of events.days, in order, whose name or description
\* contains searchTerm ignoring case; it is no longer than events.days; a day
\* whose name contains searchTerm as written is in it; and it is empty when events
\* or events.days is absent.
C4_FilterIsCaseInsensitiveMatch ==
  /\ filteredDays =
       SelectSeq(SourceDays,
         LAMBDA day : \/ ContainsIgnoringCase(day.name, searchTerm)
                      \/ ContainsIgnoringCase(day.description, searchTerm))
  /\ Len(filteredDays) <= Len(SourceDays)
  /\ \A n \in 1..Len(SourceDays) :
       includes(SourceDays[n].name, searchTerm) =>
         \E m \in 1..Len(filteredDays) : filteredDays[m] = SourceDays[n]
  /\ (events = Null \/ Val(events).days = Null) => filteredDays = <<>>

====
